---- MODULE Spec2Model ----
(***************************************************************************)
(* hello-cli: one invocation of the command-line greeting utility.         *)
(*                                                                         *)
(*   src/src/index.ts    LanguageType, askName, askLanguage, the command   *)
(*                       handler and the entry point                       *)
(*   src/src/logic.ts    LanguageSchema, NameSchema, getTimeOfDay,         *)
(*                       createGreeting                                    *)
(*   src/unnamed/part_002 (constants)  LANGUAGE, APP_NAME                  *)
(*   src/unnamed/part_003 (effects)    logToSystem                         *)
(*                                                                         *)
(* Strings.  A string is a sequence of chunks.  Text typed by the user     *)
(* (the name) is a sequence of one-character chunks, so Len(name) is the   *)
(* string's length; a literal of the source is one chunk; a template       *)
(* literal is the concatenation (\o) of its literal chunks and its         *)
(* interpolated values.  The non-ASCII literals of logic.ts are written    *)
(* in ASCII transliteration (the module's character set), one chunk each.  *)
(* A raw --lang token and a Language value are single chunks.              *)
(*                                                                         *)
(* Dates.  A Date is the number of minutes since local midnight of day 0.  *)
(***************************************************************************)
EXTENDS Naturals, Sequences, FiniteSets

VARIABLES
    argvName,    \* the positional tokens of process.argv: <<>> or <<name>>
    argvLang,    \* the value token of --lang / -l, or Absent
    pc,          \* where the invocation is
    settled,     \* the argument decoders that have settled
    nameArg,     \* outcome of decoding the positional
    langArg,     \* outcome of decoding --lang
    finalName,   \* handler local finalName
    finalLang,   \* handler local finalLang
    prompts,     \* the prompts shown so far, in order
    retries,     \* empty inputs the name prompt has rejected
    cancelledAt, \* the prompt the user cancelled at, or "none"
    now,         \* the Date handed to createGreeting
    timeOfDay,   \* createGreeting's local timeOfDay, or "none"
    greetCalls,  \* number of createGreeting calls
    result,      \* what createGreeting returned
    spinner,     \* the ora spinner: "none", "spinning", "succeed", "warn"
    logCalls,    \* number of logToSystem calls
    logResult,   \* "none", "ok" or "err"
    outro,       \* the message handed to outro(), <<>> before
    errorLine,   \* the text the handler handed to console.error, <<>> before
    exitCode,    \* {} while the process runs, {code} once it has ended
    exitCalledBy \* the code that called process.exit, or "none"

vars == <<argvName, argvLang, pc, settled, nameArg, langArg, finalName,
          finalLang, prompts, retries, cancelledAt, now, timeOfDay,
          greetCalls, result, spinner, logCalls, logResult, outro,
          errorLine, exitCode, exitCalledBy>>

----------------------------------------------------------------------------
(* Bounds of the model *)

\* longest name (argv or typed) explored
MaxNameLen == 2
\* most empty inputs the user submits to the name prompt
MaxRetries == 2
\* days of timestamps explored
MaxDays == 2

\* the characters names are made of
Chars == {"A", " "}

RECURSIVE StringsUpTo(_)
StringsUpTo(n) ==
    IF n = 0 THEN {<<>>}
    ELSE LET shorter == StringsUpTo(n - 1)
         IN  shorter \cup {Append(s, c) : s \in shorter, c \in Chars}

Names == StringsUpTo(MaxNameLen)

\* raw --lang tokens explored
RawTokens == {"en", "ja", "es", "fr", "EN", "Es", "english"}

\* two instants in every hour: its first and its last minute
Dates == {h * 60 + m : h \in 0..(24 * MaxDays - 1), m \in {0, 59}}

Absent == "absent"
Undefined == "undefined"

----------------------------------------------------------------------------
(* constants.ts *)

LANGUAGE == [EN |-> "en", JA |-> "ja", ES |-> "es"]

\* Object.values(LANGUAGE), in declaration order
LanguageValues == <<LANGUAGE.EN, LANGUAGE.JA, LANGUAGE.ES>>

Language == {LanguageValues[i] : i \in DOMAIN LanguageValues}

----------------------------------------------------------------------------
(* logic.ts *)

\* s.toLowerCase() on the raw tokens explored
ToLowerCase(s) ==
    CASE s = "EN" -> "en"
      [] s = "Es" -> "es"
      [] OTHER    -> s

\* faulty variant of LanguageSchema: matches the token ignoring case
LanguageSchemaIgnoringCase(str) ==
    IF ToLowerCase(str) \in Language
    THEN [success |-> TRUE, data |-> ToLowerCase(str)]
    ELSE [success |-> FALSE, data |-> Undefined]

\* LanguageSchema.safeParse(str), LanguageSchema = z.nativeEnum(LANGUAGE)
LanguageSchema(str) ==
    IF str \in Language
    THEN [success |-> TRUE, data |-> str]
    ELSE [success |-> FALSE, data |-> Undefined]

\* ZodError.message of a failed z.string().min(1, message) parse: the JSON
\* serialisation (two-space indent) of the list of its one issue, in three
\* chunks: the text before the issue's message, the message, the text after
ZodErrorMessage(code, message) ==
    <<"[\n  {\n    \"code\": \"" \o code
        \o "\",\n    \"minimum\": 1,\n    \"type\": \"string\","
        \o "\n    \"inclusive\": true,\n    \"exact\": false,"
        \o "\n    \"message\": \"",
      message,
      "\",\n    \"path\": []\n  }\n]">>

\* faulty variant of NameSchema: requires a non-blank name
NameSchemaNonBlank(name) ==
    IF \E i \in DOMAIN name : name[i] # " "
    THEN [success |-> TRUE, message |-> <<>>]
    ELSE [success |-> FALSE,
          message |-> ZodErrorMessage("too_small", "Name cannot be empty")]

\* NameSchema.safeParse(name), NameSchema = z.string().min(1, ...);
\* message is nameResult.error.message of a failure, <<>> of a success
NameSchema(name) ==
    IF Len(name) >= 1
    THEN [success |-> TRUE, message |-> <<>>]
    ELSE [success |-> FALSE,
          message |-> ZodErrorMessage("too_small", "Name cannot be empty")]

\* date-fns getHours(date): the local hour of day
getHours(date) == (date \div 60) % 24

\* faulty variant of getTimeOfDay: the first threshold is h <= 12
getTimeOfDayInclusiveNoon(date) ==
    LET hour == getHours(date)
    IN  IF hour <= 12 THEN "morning"
        ELSE IF hour < 18 THEN "day"
        ELSE "evening"

\* getTimeOfDay(date): match(hour).when(h < 12).when(h < 18).otherwise
getTimeOfDay(date) ==
    LET hour == getHours(date)
    IN  IF hour < 12 THEN "morning"
        ELSE IF hour < 18 THEN "day"
        ELSE "evening"

NoMatch == [matched |-> FALSE, value |-> <<>>]
Matched(v) == [matched |-> TRUE, value |-> v]

\* faulty variant of MatchGreeting: the [ES, evening] arm is missing
MatchGreetingMissingArm(name, lang, tod) ==
    CASE lang = LANGUAGE.JA /\ tod = "morning" ->
            Matched(<<"Ohayou gozaimasu, ">> \o name \o <<"-san!">>)
      [] lang = LANGUAGE.JA /\ tod = "day" ->
            Matched(<<"Konnichiwa, ">> \o name \o <<"-san!">>)
      [] lang = LANGUAGE.JA /\ tod = "evening" ->
            Matched(<<"Konbanwa, ">> \o name \o <<"-san!">>)
      [] lang = LANGUAGE.EN /\ tod = "morning" ->
            Matched(<<"Good morning, ">> \o name \o <<"!">>)
      [] lang = LANGUAGE.EN /\ tod = "day" ->
            Matched(<<"Hello, ">> \o name \o <<"!">>)
      [] lang = LANGUAGE.EN /\ tod = "evening" ->
            Matched(<<"Good evening, ">> \o name \o <<"!">>)
      [] lang = LANGUAGE.ES /\ tod = "morning" ->
            Matched(<<"!Buenos dias, ">> \o name \o <<"!">>)
      [] lang = LANGUAGE.ES /\ tod = "day" ->
            Matched(<<"!Hola, ">> \o name \o <<"!">>)
      [] OTHER -> NoMatch

\* match([lang, timeOfDay]).with(...)...  : the arm taken, in source order;
\* .exhaustive() throws when no arm matches
MatchGreeting(name, lang, tod) ==
    CASE lang = LANGUAGE.JA /\ tod = "morning" ->
            Matched(<<"Ohayou gozaimasu, ">> \o name \o <<"-san!">>)
      [] lang = LANGUAGE.JA /\ tod = "day" ->
            Matched(<<"Konnichiwa, ">> \o name \o <<"-san!">>)
      [] lang = LANGUAGE.JA /\ tod = "evening" ->
            Matched(<<"Konbanwa, ">> \o name \o <<"-san!">>)
      [] lang = LANGUAGE.EN /\ tod = "morning" ->
            Matched(<<"Good morning, ">> \o name \o <<"!">>)
      [] lang = LANGUAGE.EN /\ tod = "day" ->
            Matched(<<"Hello, ">> \o name \o <<"!">>)
      [] lang = LANGUAGE.EN /\ tod = "evening" ->
            Matched(<<"Good evening, ">> \o name \o <<"!">>)
      [] lang = LANGUAGE.ES /\ tod = "morning" ->
            Matched(<<"!Buenos dias, ">> \o name \o <<"!">>)
      [] lang = LANGUAGE.ES /\ tod = "day" ->
            Matched(<<"!Hola, ">> \o name \o <<"!">>)
      [] lang = LANGUAGE.ES /\ tod = "evening" ->
            Matched(<<"!Buenas noches, ">> \o name \o <<"!">>)
      [] OTHER -> NoMatch

\* createGreeting(name, lang, date): ok(message), err(Error), or a throw
\* out of .exhaustive(); tod is the local timeOfDay ("none" if not computed)
createGreeting(name, lang, date) ==
    LET nameResult == NameSchema(name)
    IN  IF ~nameResult.success
        THEN [kind |-> "err", value |-> <<>>, error |-> nameResult.message,
              tod |-> "none"]
        ELSE LET tod == getTimeOfDay(date)
                 m   == MatchGreeting(name, lang, tod)
             IN  IF m.matched
                 THEN [kind |-> "ok", value |-> m.value, error |-> <<>>,
                       tod |-> tod]
                 ELSE [kind |-> "throw", value |-> <<>>, error |-> <<>>,
                       tod |-> tod]

NoResult == [kind |-> "none", value |-> <<>>, error |-> <<>>, tod |-> "none"]

----------------------------------------------------------------------------
(* index.ts: decoders *)

\* values.join(sep)
RECURSIVE Join(_, _)
Join(values, sep) ==
    IF Len(values) = 0 THEN <<>>
    ELSE IF Len(values) = 1 THEN <<values[1]>>
    ELSE <<values[1], sep>> \o Join(Tail(values), sep)

\* LanguageType.from(str): resolves to the Language, or throws the Error
\* whose message is given
LanguageType(str) ==
    LET parsed == LanguageSchema(str)
    IN  IF ~parsed.success
        THEN [ok |-> FALSE, value |-> Undefined,
              message |-> <<"Invalid language: ", str, ". Allowed: ">>
                          \o Join(LanguageValues, ", ")]
        ELSE [ok |-> TRUE, value |-> parsed.data, message |-> <<>>]

\* option({ type: optional(LanguageType) }): no token, no decoding
OptionalLanguageType(token) ==
    IF token = Absent
    THEN [ok |-> TRUE, value |-> Undefined, message |-> <<>>]
    ELSE LanguageType(token)

\* positional({ type: string }): required; the token is the value
PositionalString(tokens) ==
    IF Len(tokens) = 0
    THEN [ok |-> FALSE, value |-> <<>>,
          message |-> <<"No value provided for name">>]
    ELSE [ok |-> TRUE, value |-> tokens[1], message |-> <<>>]

Unsettled == [ok |-> FALSE, value |-> Undefined, message |-> <<>>]
UnsettledName == [ok |-> FALSE, value |-> <<>>, message |-> <<>>]

\* faulty variant of ValidateName: accepts the empty text
ValidateNameAcceptsAll(value) == <<>>

\* askName's validate callback: the complaint, or <<>> for undefined
ValidateName(value) ==
    IF Len(value) = 0 THEN <<"Name is required!">> ELSE <<>>

\* !finalName
Falsy(name) == Len(name) = 0

\* faulty variant of Interactive: also prompts when only the name is missing
InteractiveIfAnythingMissing(lang, name) == lang = Undefined \/ Falsy(name)

\* the handler's test for the interactive branch: langArg === undefined
Interactive(lang, name) == lang = Undefined

----------------------------------------------------------------------------
(* The invocation *)

Init ==
    /\ argvName \in {<<>>} \cup {<<name>> : name \in Names}
    /\ argvLang \in RawTokens \cup {Absent}
    /\ pc = "start"
    /\ settled = {}
    /\ nameArg = UnsettledName
    /\ langArg = Unsettled
    /\ finalName = <<>>
    /\ finalLang = Undefined
    /\ prompts = <<>>
    /\ retries = 0
    /\ cancelledAt = "none"
    /\ now = 0
    /\ timeOfDay = "none"
    /\ greetCalls = 0
    /\ result = NoResult
    /\ spinner = "none"
    /\ logCalls = 0
    /\ logResult = "none"
    /\ outro = <<>>
    /\ errorLine = <<>>
    /\ exitCode = {}
    /\ exitCalledBy = "none"

\* process.exit(code) called by who
Exit(code, who) ==
    /\ pc' = "exited"
    /\ exitCode' = {code}
    /\ exitCalledBy' = who

\* entry point: run(app, process.argv.slice(2)) starts binding.  run() is
\* asynchronous and is not awaited: nothing is thrown synchronously into the
\* try block, so its catch (lines 127-130) is never entered
Run ==
    /\ pc = "start"
    /\ pc' = "binding"
    /\ UNCHANGED <<argvName, argvLang, settled, nameArg, langArg, finalName,
                   finalLang, prompts, retries, cancelledAt, now, timeOfDay,
                   greetCalls, result, spinner, logCalls, logResult, outro, errorLine,
                   exitCode, exitCalledBy>>

\* the positional's decoder settles
DecodeNameArg ==
    /\ pc = "binding"
    /\ "nameArg" \notin settled
    /\ nameArg' = PositionalString(argvName)
    /\ settled' = settled \cup {"nameArg"}
    /\ UNCHANGED <<argvName, argvLang, pc, langArg, finalName, finalLang,
                   prompts, retries, cancelledAt, now, timeOfDay, greetCalls,
                   result, spinner, logCalls, logResult, outro, errorLine, exitCode,
                   exitCalledBy>>

\* the option's decoder settles
DecodeLangArg ==
    /\ pc = "binding"
    /\ "langArg" \notin settled
    /\ langArg' = OptionalLanguageType(argvLang)
    /\ settled' = settled \cup {"langArg"}
    /\ UNCHANGED <<argvName, argvLang, pc, nameArg, finalName, finalLang,
                   prompts, retries, cancelledAt, now, timeOfDay, greetCalls,
                   result, spinner, logCalls, logResult, outro, errorLine, exitCode,
                   exitCalledBy>>

\* every decoder has settled and one failed: run() reports it and ends the
\* process with status 1; the handler is not called
BindFail ==
    /\ pc = "binding"
    /\ settled = {"nameArg", "langArg"}
    /\ ~nameArg.ok \/ ~langArg.ok
    /\ Exit(1, "run")
    /\ UNCHANGED <<argvName, argvLang, settled, nameArg, langArg, finalName,
                   finalLang, prompts, retries, cancelledAt, now, timeOfDay,
                   greetCalls, result, spinner, logCalls, logResult, outro, errorLine>>

\* handler lines 98-107: createGreeting, the error exit, the spinner's start
Greet(name, lang, date) ==
    LET r == createGreeting(name, lang, date)
    IN  /\ now' = date
        /\ greetCalls' = greetCalls + 1
        /\ result' = r
        /\ timeOfDay' = r.tod
        /\ IF r.kind = "ok"
           THEN /\ spinner' = "spinning"
                /\ pc' = "delay"
                /\ UNCHANGED <<errorLine, exitCode, exitCalledBy>>
           ELSE IF r.kind = "err"
           THEN /\ errorLine' = <<"Error: ">> \o r.error
                /\ Exit(1, "handler")
                /\ UNCHANGED spinner
           ELSE \* an exception out of the handler: the runtime ends the process
                /\ Exit(1, "none")
                /\ UNCHANGED <<spinner, errorLine>>

\* every decoder succeeded and --lang was given: handler lines 85-107
HandlerDirect ==
    /\ pc = "binding"
    /\ settled = {"nameArg", "langArg"}
    /\ nameArg.ok /\ langArg.ok
    /\ ~Interactive(langArg.value, nameArg.value)
    /\ finalName' = nameArg.value
    /\ finalLang' = langArg.value
    /\ \E date \in Dates : Greet(nameArg.value, langArg.value, date)
    /\ UNCHANGED <<argvName, argvLang, settled, nameArg, langArg, prompts,
                   retries, cancelledAt, logCalls, logResult, outro>>

\* every decoder succeeded and --lang was not given: handler lines 85-93,
\* up to the first prompt
HandlerInteractive ==
    /\ pc = "binding"
    /\ settled = {"nameArg", "langArg"}
    /\ nameArg.ok /\ langArg.ok
    /\ Interactive(langArg.value, nameArg.value)
    /\ finalName' = nameArg.value
    /\ IF Falsy(nameArg.value)
       THEN /\ prompts' = Append(prompts, "name")
            /\ pc' = "askName"
       ELSE /\ prompts' = Append(prompts, "language")
            /\ pc' = "askLanguage"
    /\ UNCHANGED <<argvName, argvLang, settled, nameArg, langArg, finalLang,
                   retries, cancelledAt, now, timeOfDay, greetCalls, result,
                   spinner, logCalls, logResult, outro, errorLine, exitCode,
                   exitCalledBy>>

\* the user submits a text the validate callback rejects: the prompt stays
NameRejected(value) ==
    /\ pc = "askName"
    /\ retries < MaxRetries
    /\ ValidateName(value) # <<>>
    /\ retries' = retries + 1
    /\ UNCHANGED <<argvName, argvLang, pc, settled, nameArg, langArg,
                   finalName, finalLang, prompts, cancelledAt, now, timeOfDay,
                   greetCalls, result, spinner, logCalls, logResult, outro, errorLine,
                   exitCode, exitCalledBy>>

\* the user submits a text the validate callback accepts: askName returns
\* it and the handler goes on to askLanguage
NameAccepted(value) ==
    /\ pc = "askName"
    /\ ValidateName(value) = <<>>
    /\ finalName' = value
    /\ prompts' = Append(prompts, "language")
    /\ pc' = "askLanguage"
    /\ UNCHANGED <<argvName, argvLang, settled, nameArg, langArg, finalLang,
                   retries, cancelledAt, now, timeOfDay, greetCalls, result,
                   spinner, logCalls, logResult, outro, errorLine, exitCode,
                   exitCalledBy>>

\* the user cancels the name prompt: askName lines 45-47
NameCancelled ==
    /\ pc = "askName"
    /\ cancelledAt' = "name"
    /\ Exit(0, "askName")
    /\ UNCHANGED <<argvName, argvLang, settled, nameArg, langArg, finalName,
                   finalLang, prompts, retries, now, timeOfDay, greetCalls,
                   result, spinner, logCalls, logResult, outro, errorLine>>

\* the user picks an option: askLanguage returns it, handler lines 93-107
LanguageChosen(lang) ==
    /\ pc = "askLanguage"
    /\ finalLang' = lang
    /\ \E date \in Dates : Greet(finalName, lang, date)
    /\ UNCHANGED <<argvName, argvLang, settled, nameArg, langArg, finalName,
                   prompts, retries, cancelledAt, logCalls, logResult, outro>>

\* the user cancels the language prompt: askLanguage lines 60-62
LanguageCancelled ==
    /\ pc = "askLanguage"
    /\ cancelledAt' = "language"
    /\ Exit(0, "askLanguage")
    /\ UNCHANGED <<argvName, argvLang, settled, nameArg, langArg, finalName,
                   finalLang, prompts, retries, now, timeOfDay, greetCalls,
                   result, spinner, logCalls, logResult, outro, errorLine>>

\* the 800 ms delay is over: handler line 111 calls logToSystem(message)
DelayElapsed ==
    /\ pc = "delay"
    /\ logCalls' = logCalls + 1
    /\ pc' = "logging"
    /\ UNCHANGED <<argvName, argvLang, settled, nameArg, langArg, finalName,
                   finalLang, prompts, retries, cancelledAt, now, timeOfDay,
                   greetCalls, result, spinner, logResult, outro, errorLine, exitCode,
                   exitCalledBy>>

\* faulty variant of LogSettled: a logging failure ends the process with
\* status 1 before the greeting is output
LogSettledAbortsOnFailure(ok) ==
    /\ pc = "logging"
    /\ logResult' = IF ok THEN "ok" ELSE "err"
    /\ IF ok
       THEN /\ spinner' = "succeed"
            /\ outro' = result.value
            /\ pc' = "done"
            /\ exitCode' = {0}
            /\ UNCHANGED exitCalledBy
       ELSE /\ spinner' = "warn"
            /\ Exit(1, "handler")
            /\ UNCHANGED outro
    /\ UNCHANGED <<argvName, argvLang, settled, nameArg, langArg, finalName,
                   finalLang, prompts, retries, cancelledAt, now, timeOfDay,
                   greetCalls, result, logCalls, errorLine>>

\* logToSystem's ResultAsync settles (execa resolved: ok; rejected: err):
\* handler lines 113-120; the handler returns and the process ends with
\* status 0
LogSettled(ok) ==
    /\ pc = "logging"
    /\ logResult' = IF ok THEN "ok" ELSE "err"
    /\ spinner' = IF ok THEN "succeed" ELSE "warn"
    /\ outro' = result.value
    /\ pc' = "done"
    /\ exitCode' = {0}
    /\ UNCHANGED <<argvName, argvLang, settled, nameArg, langArg, finalName,
                   finalLang, prompts, retries, cancelledAt, now, timeOfDay,
                   greetCalls, result, logCalls, errorLine, exitCalledBy>>

Next ==
    \/ Run
    \/ DecodeNameArg
    \/ DecodeLangArg
    \/ BindFail
    \/ HandlerDirect
    \/ HandlerInteractive
    \/ \E value \in Names : NameRejected(value)
    \/ \E value \in Names : NameAccepted(value)
    \/ NameCancelled
    \/ \E lang \in Language : LanguageChosen(lang)
    \/ LanguageCancelled
    \/ DelayElapsed
    \/ \E ok \in BOOLEAN : LogSettled(ok)

Spec == Init /\ [][Next]_vars

----------------------------------------------------------------------------
(* Helpers of the properties *)

\* part occurs in whole as a contiguous run of chunks
Contains(whole, part) ==
    \E i \in 1..(Len(whole) - Len(part) + 1) :
        SubSeq(whole, i, i + Len(part) - 1) = part

\* every chunk of a string is text
NonEmptyText(str) == Len(str) >= 1 /\ \A i \in DOMAIN str : str[i] # ""

Bound == settled = {"nameArg", "langArg"}

\* the interactive controller has run: a prompt was shown
ControllerRan == prompts # <<>>

Ended == pc \in {"exited", "done"}

----------------------------------------------------------------------------
(* Properties *)

\* C1: when --lang is absent and the user cancels at the name prompt or at
\* the language prompt, the process ends with exit code 2 and
\* createGreeting is never called in that invocation.
C1_CancelExitsWithUserError ==
    cancelledAt # "none" =>
        /\ argvLang = Absent
        /\ exitCode = {2}
        /\ greetCalls = 0

\* C2: whenever createGreeting returns a failure, the process ends with
\* exit code 2, not 0 or 1, and the logging action is not called.
C2_GreetingFailureExitsWithUserError ==
    result.kind = "err" =>
        /\ exitCode = {2}
        /\ logCalls = 0

\* C3: once createGreeting has succeeded the invocation never ends with a
\* status other than 0 and calls the logging action at most once; when it
\* is over the status is 0, the logging action was called exactly once
\* whether it succeeded or failed, the greeting is what was output, and the
\* spinner shows the confirmation after a logging success and the warning
\* after a logging failure.
C3_LoggingFailureTolerated ==
    result.kind = "ok" =>
        /\ exitCode \subseteq {0}
        /\ logCalls <= 1
        /\ exitCalledBy = "none"
        /\ pc \in {"delay", "logging", "done"}
        /\ pc = "done" =>
              /\ exitCode = {0}
              /\ logCalls = 1
              /\ logResult \in {"ok", "err"}
              /\ outro = result.value
              /\ spinner = (IF logResult = "ok" THEN "succeed" ELSE "warn")

\* C3 witness: an invocation is over after a logging failure.
C3_Witness ==
    /\ pc = "done"
    /\ result.kind = "ok"
    /\ logResult = "err"
    /\ exitCode = {0}
    /\ outro = result.value

\* C4: process.exit is never called by the prompt helpers, the decoder, the
\* greeting engine or the logging action; cancellation is returned to the
\* entry point.
C4_HelpersNeverExit ==
    /\ exitCalledBy \notin {"askName", "askLanguage", "LanguageType",
                            "createGreeting", "logToSystem"}
    /\ cancelledAt # "none" => exitCalledBy \notin {"askName", "askLanguage"}

\* C5: a prompt is shown only after every decoder has settled and none has
\* failed (a failed binding shows no prompt); the prompts shown are the
\* name prompt then the language prompt, or one of them, or none; and the
\* language prompt is shown only once the name is non-empty.
C5_PromptsAfterBindingInOrder ==
    /\ prompts # <<>> => Bound /\ nameArg.ok /\ langArg.ok
    /\ (Bound /\ (~nameArg.ok \/ ~langArg.ok)) => prompts = <<>>
    /\ prompts \in {<<>>, <<"name">>, <<"language">>, <<"name", "language">>}
    /\ Contains(prompts, <<"language">>) => Len(finalName) >= 1
    /\ pc = "askName" => prompts = <<"name">>

\* C5 witness: both prompts were shown and the name prompt was answered.
C5_Witness ==
    /\ prompts = <<"name", "language">>
    /\ retries >= 1
    /\ Len(finalName) >= 1
    /\ pc = "askLanguage"

\* C6: if --lang was decoded to a language no prompt is shown, even when
\* the bound name is empty; a prompt is shown only when the bound language
\* is undefined; the name prompt is shown exactly when, in addition, the
\* bound name is falsy; and the language prompt is shown in every run of
\* the controller that is not still at, or cancelled at, the name prompt.
C6_ControllerOnlyWithoutLanguage ==
    /\ (Bound /\ langArg.ok /\ langArg.value # Undefined) => prompts = <<>>
    /\ ControllerRan => Bound /\ langArg.ok /\ langArg.value = Undefined
    /\ (Bound /\ nameArg.ok /\ langArg.ok /\ langArg.value = Undefined
          /\ pc # "binding") =>
            /\ ControllerRan
            /\ Contains(prompts, <<"name">>) <=> Falsy(nameArg.value)
            /\ Contains(prompts, <<"language">>)
                 \/ pc = "askName" \/ cancelledAt = "name"

\* C6 witness: --lang was decoded, the bound name is empty, the invocation
\* is over and no prompt was shown.
C6_Witness ==
    /\ Ended
    /\ langArg.ok /\ langArg.value \in Language
    /\ nameArg.ok /\ Falsy(nameArg.value)
    /\ prompts = <<>>

\* C7: the period computed for a timestamp is morning exactly for the hours
\* 0..11, day exactly for 12..17 and evening exactly for 18..23.
C7_PeriodPartition ==
    timeOfDay # "none" =>
        LET h == (now \div 60) % 24
        IN  /\ timeOfDay \in {"morning", "day", "evening"}
            /\ timeOfDay = "morning" <=> h \in 0..11
            /\ timeOfDay = "day" <=> h \in 12..17
            /\ timeOfDay = "evening" <=> h \in 18..23

\* C7 witness: a greeting at twelve o'clock of the second day.
C7_Witness ==
    /\ now = 36 * 60
    /\ timeOfDay = "day"

\* C8: for every language, every period and every non-empty name,
\* createGreeting returns a success (never a match failure) whose message
\* is non-empty and contains the name.
C8_GreetingTotal ==
    (greetCalls >= 1 /\ Len(finalName) >= 1) =>
        /\ result.kind = "ok"
        /\ finalLang \in Language
        /\ timeOfDay \in {"morning", "day", "evening"}
        /\ NonEmptyText(result.value)
        /\ Contains(result.value, finalName)

\* C8 witness: the last of the nine pairs, with a two-character name.
C8_Witness ==
    /\ finalLang = LANGUAGE.ES
    /\ timeOfDay = "evening"
    /\ Len(finalName) = 2
    /\ result.kind = "ok"
    /\ Contains(result.value, finalName)

\* C9: createGreeting returns a failure exactly when the name has length 0
\* and a success otherwise (a single space included); it never throws.
C9_FailsExactlyOnEmptyName ==
    greetCalls >= 1 =>
        /\ result.kind \in {"ok", "err"}
        /\ result.kind = "err" <=> Len(finalName) = 0
        /\ result.kind = "ok" <=> Len(finalName) >= 1
        /\ finalName = <<" ">> => result.kind = "ok"

\* C9 witness: createGreeting was handed the empty name and failed.
C9_Witness ==
    /\ greetCalls = 1
    /\ finalName = <<>>
    /\ result.kind = "err"
    /\ Contains(result.error, <<"Name cannot be empty">>)
    /\ errorLine = <<"Error: ">> \o result.error

\* C10: the language decoder succeeds exactly on the tokens en, ja and es,
\* with the token as its value; on any other token it fails with a message
\* that names the token and lists en, ja, es.
C10_DecoderAcceptsExactlyLanguages ==
    ("langArg" \in settled /\ argvLang # Absent) =>
        /\ langArg.ok <=> argvLang \in {"en", "ja", "es"}
        /\ langArg.ok => langArg.value = argvLang
        /\ ~langArg.ok =>
              /\ Contains(langArg.message, <<"Invalid language: ", argvLang>>)
              /\ Contains(langArg.message, <<"en", ", ", "ja", ", ", "es">>)

\* C10 witness: the upper-case token EN was refused.
C10_Witness ==
    /\ "langArg" \in settled
    /\ argvLang = "EN"
    /\ ~langArg.ok
    /\ Contains(langArg.message, <<"EN">>)

====
